---- MODULE Spec2Model ----
(***************************************************************************)
(* Model of the language-learning core: the FSRS-lite review scheduler,    *)
(* the placement staircase, the IRT helpers and the assessment answer      *)
(* handler.                                                                *)
(*                                                                         *)
(* Numbers.  The code computes in IEEE doubles.  The model computes in    *)
(* fixed point: scheduler and IRT quantities are integers in units of      *)
(* 1/SC; staircase quantities are integers in units of 1/PSC (a power of   *)
(* two, so that halving the step is exact).                                *)
(***************************************************************************)
EXTENDS Integers, Sequences, FiniteSets, TLC

VARIABLES
    mem,        \* scheduler: the item's memory state [s, d]
    days,       \* scheduler: intervalDays returned by the last review (0: none yet)
    reviews,    \* scheduler: number of reviews applied
    rated,      \* scheduler: the rating handed to the last review call (0: none yet)
    lexemeState,\* study route: the learner's LexemeState row of the card's lexeme
    audit,      \* study route: the Review rows written, in creation order
    sreqs,      \* study route: the review requests in flight, one per slot
    sposted,    \* study route: number of review requests received
    pst,        \* staircase: the placement state [theta, step, n]
    answered,   \* staircase: the outcome handed to the last update call ("none": none yet)
    settings,   \* placement route: settings.placementState of the user (<<>>: undefined)
    level,      \* placement route: the LevelEstimate row of the user (<<>>: none)
    preqs,      \* placement route: the answer requests in flight, one per slot
    posted,     \* placement route: number of answer requests received
    prefs,      \* settings route: the user-setting fields of the settings record (dailyGoal)
    setreq,     \* settings route: the POST /api/settings request in flight
    est,        \* IRT: the ability state [theta, var] the helpers are applied to
    prior,      \* IRT: the ability state before the last updateThetaMAP call
    obs,        \* IRT: the item and outcome [b, g, y] of the last update (NoObs: none)
    cands,      \* IRT: the candidate list last handed to pickBestItem
    chosen,     \* IRT: what pickBestItem returned for it (0: null, else an index)
    updates,    \* IRT: number of updateThetaMAP calls applied
    bank,       \* assessment: difficulties b of the lexemes, by frequency rank
    sess,       \* assessment: the AssessmentSession row
    items,      \* assessment: the session's AssessmentItem rows, in creation order
    tally,      \* assessment: per item, the AssessmentResponse rows recorded for it
    reqs,       \* assessment: the answer requests in flight, one per slot
    lastNext,   \* assessment: the item id the client last received as nextItem (0: none)
    arrived,    \* assessment: number of answer requests received
    sessions    \* lifecycle: the stage of each AssessmentSession row of the learner, in
                \* creation order (in the assessment specifications the one session is sess)

coreVars == <<mem, days, reviews, rated>>
studyVars == <<lexemeState, audit, sreqs, sposted>>
fsrsVars == <<coreVars, studyVars>>
stairVars == <<pst, answered>>
routeVars == <<settings, level, preqs, posted, prefs, setreq>>
placeVars == <<stairVars, routeVars>>
irtVars == <<est, prior, obs, cands, chosen, updates>>
assessVars == <<bank, sess, items, tally, reqs, lastNext, arrived, sessions>>
vars == <<mem, days, reviews, rated, lexemeState, audit, sreqs, sposted,
          pst, answered, settings, level, preqs, posted, est, prior, obs, cands, chosen, updates,
          bank, sess, items, tally, reqs, lastNext, arrived, prefs, setreq, sessions>>

(***************************************************************************)
(* Bounds of the exploration                                               *)
(***************************************************************************)
MaxReviews == 4
MaxResponses == 16
MaxUpdates == 2
MaxAnswers == 32
MaxOverlapping == 2
MaxStudyPosts == 3
MaxPosts == 3
MaxProbes == 3
MaxSettingsPosts == 2
MaxSessions == 2
MaxTheta == 30
MaxStep == 32

(***************************************************************************)
(* Fixed-point helpers                                                     *)
(***************************************************************************)
SC == 10000
PSC == 65536
TSC == 1000
\* confidence in thousandths
CSC == 1000

Min(a, b) == IF a <= b THEN a ELSE b
Max(a, b) == IF a >= b THEN a ELSE b

\* x / y rounded to the nearest integer (y > 0)
RDiv(x, y) == IF x >= 0 THEN (2 * x + y) \div (2 * y)
                        ELSE -((2 * (-x) + y) \div (2 * y))

(***************************************************************************)
(* Review scheduler (fsrs.ts)                                              *)
(***************************************************************************)
Ratings == 1..4

S_MIN == 3000       \* 0.3
S_MAX == 600000     \* 60
D_MIN == 13000      \* 1.3
D_MAX == 90000      \* 9.0

\* rating multipliers in tenths: again=0.5, hard=0.9, good=1.6, easy=2.2
Mult10_swapped(rating) == IF rating = 1 THEN 5
                          ELSE IF rating = 2 THEN 16
                          ELSE IF rating = 3 THEN 9
                          ELSE 22

Mult10(rating) == IF rating = 1 THEN 5
                  ELSE IF rating = 2 THEN 9
                  ELSE IF rating = 3 THEN 16
                  ELSE 22

DiffDelta_hard(rating) == IF rating = 4 THEN -2000
                          ELSE IF rating = 1 \/ rating = 2 THEN 3000
                          ELSE 0

DiffDelta(rating) == IF rating = 4 THEN -2000
                     ELSE IF rating = 1 THEN 3000
                     ELSE 0

\* DayCuts[k] is the least stability s (in 1/SC) with round(s^1.07) >= k + 1,
\* i.e. s^1.07 >= k + 0.5; stability never exceeds 60, so 80 days is the most.
DayCuts == <<14608, 23546, 32246, 40783, 49196, 57509, 65738, 73896, 81990,
             90030, 98019, 105962, 113865, 121729, 129557, 137353, 145117,
             152853, 160561, 168244, 175902, 183537, 191149, 198741, 206312,
             213864, 221397, 228912, 236410, 243892, 251357, 258807, 266242,
             273662, 281069, 288461, 295841, 303207, 310561, 317903, 325233,
             332552, 339859, 347155, 354441, 361716, 368981, 376236, 383481,
             390716, 397943, 405160, 412368, 419567, 426757, 433939, 441113,
             448279, 455436, 462586, 469728, 476862, 483989, 491109, 498221,
             505326, 512425, 519516, 526601, 533679, 540750, 547815, 554874,
             561926, 568972, 576012, 583046, 590074, 597096>>

\* Math.max(1, Math.round(Math.pow(s, 1.07)))
IntervalDays(s) == 1 + Cardinality({k \in 1..Len(DayCuts) : DayCuts[k] <= s})

review_noceiling(prev, rating) ==
    LET s == Max(S_MIN, RDiv(prev.s * Mult10(rating), 10))
        d == Max(D_MIN, prev.d + DiffDelta(rating))
    IN  [s |-> s, d |-> d, days |-> IntervalDays(s)]

review(prev, rating) ==
    LET s == Min(S_MAX, Max(S_MIN, RDiv(prev.s * Mult10(rating), 10)))
        d == Min(D_MAX, Max(D_MIN, prev.d + DiffDelta(rating)))
    IN  [s |-> s, d |-> d, days |-> IntervalDays(s)]

getNextInterval(state, rating) == review(state, rating).days

\* initState(): s = 0.5, d = 5.0
initState == [s |-> 5000, d |-> 50000]

(***************************************************************************)
(* Placement staircase (placement.ts)                                      *)
(***************************************************************************)
Outcomes == {"easy", "hard"}

start == [theta |-> 0, step |-> PSC, n |-> 0]

update_growing(state, outcome) ==
    LET theta == state.theta + (IF outcome = "easy" THEN state.step ELSE -state.step)
        n == state.n + 1
        step == IF n % 2 = 0 THEN state.step * 2 ELSE state.step
    IN  [theta |-> theta, step |-> step, n |-> n]

update(state, outcome) ==
    LET theta == state.theta + (IF outcome = "easy" THEN state.step ELSE -state.step)
        n == state.n + 1
        step == IF n % 2 = 0 THEN state.step \div 2 ELSE state.step
    IN  [theta |-> theta, step |-> step, n |-> n]

shouldStop_caponly(state) == state.n >= 15

\* (n >= 10 && step <= 0.2) || n >= 15
shouldStop(state) == (state.n >= 10 /\ 5 * state.step <= PSC) \/ state.n >= 15

N_MAX == 15

CEFR == <<"A1", "A2", "B1", "B2", "C1", "C2">>

thetaToCEFR_upper(theta) ==
    IF theta < -2 * PSC THEN "A1"
    ELSE IF theta < -PSC THEN "A2"
    ELSE IF 5 * theta < PSC THEN "B1"
    ELSE IF 5 * theta < 6 * PSC THEN "B2"
    ELSE IF 5 * theta < 11 * PSC THEN "C1"
    ELSE "C2"

\* cut points -2, -1, 0.2, 1.2, 2.2
thetaToCEFR(theta) ==
    IF theta <= -2 * PSC THEN "A1"
    ELSE IF theta <= -PSC THEN "A2"
    ELSE IF 5 * theta <= PSC THEN "B1"
    ELSE IF 5 * theta <= 6 * PSC THEN "B2"
    ELSE IF 5 * theta <= 11 * PSC THEN "C1"
    ELSE "C2"

calculateConfidence_unclamped(step) ==
    LET minStep == PSC \div 8
        maxStep == PSC
        minConfidence == (3 * CSC) \div 10
        maxConfidence == CSC
        clampedStep == step
    IN  minConfidence
          + RDiv((maxStep - clampedStep) * (maxConfidence - minConfidence),
                 maxStep - minStep)

\* minStep 0.125, maxStep 1.0, minConfidence 0.3, maxConfidence 1.0;
\* normalized * (maxConfidence - minConfidence) is one rounded quotient
calculateConfidence(step) ==
    LET minStep == PSC \div 8
        maxStep == PSC
        minConfidence == (3 * CSC) \div 10
        maxConfidence == CSC
        clampedStep == Max(minStep, Min(maxStep, step))
    IN  minConfidence
          + RDiv((maxStep - clampedStep) * (maxConfidence - minConfidence),
                 maxStep - minStep)

\* the cefrBand and the confidence of the estimate (vocabIndex is not
\* modelled)
generateLevelEstimate(state) ==
    [cefrBand |-> thetaToCEFR(state.theta),
     confidence |-> calculateConfidence(state.step)]


(***************************************************************************)
(* IRT helpers (irt.ts)                                                    *)
(***************************************************************************)

\* 1000 * sigmoid(k / 4) for k = 0..32, rounded; SigTab[k + 1] is the entry of k
SigTab == <<500, 562, 622, 679, 731, 777, 818, 852, 881, 905, 924, 940, 953,
            963, 971, 977, 982, 986, 989, 991, 993, 995, 996, 997, 998, 998,
            998, 999, 999, 999, 999, 1000, 1000>>

\* sigmoid for x >= 0: the table, linearly interpolated between its entries
SigPos(x) ==
    IF x >= 8 * TSC THEN SigTab[33]
    ELSE LET i == x \div 250
             r == x % 250
         IN  SigTab[i + 1] + RDiv((SigTab[i + 2] - SigTab[i + 1]) * r, 250)

\* 1 / (1 + Math.exp(-x))
sigmoid(x) == IF x >= 0 THEN SigPos(x) ELSE TSC - SigPos(-x)

probKnow(theta, b, g) == g + RDiv((TSC - g) * sigmoid(theta - b), TSC)

\* q = (p - g) / (1 - g)
QOf(p, g) == RDiv((p - g) * TSC, TSC - g)

\* dp = (1 - g) * q * (1 - q)
DpOf(q, g) == RDiv(RDiv((TSC - g) * q, TSC) * (TSC - q), TSC)

\* p * (1 - p) + 1e-9: the epsilon keeps the denominator positive
PQ(p) == Max(1, RDiv(p * (TSC - p), TSC))

fisherInfo(theta, b, g) ==
    LET p == probKnow(theta, b, g)
        q == QOf(p, g)
        dp == DpOf(q, g)
    IN  RDiv(dp * dp, PQ(p))

VAR_MIN == 20       \* 0.02
VAR_MAX == 1000     \* 1.0

updateThetaMAP_nodata(state, b, g, y) ==
    LET hess == -fisherInfo(state.theta, b, g) - RDiv(TSC * TSC, state.var)
        grad == -RDiv(state.theta * TSC, state.var)
    IN  [theta |-> state.theta - RDiv(grad * TSC, hess),
         var |-> Min(VAR_MAX, Max(VAR_MIN, RDiv(TSC * TSC, -hess)))]

updateThetaMAP_noprior(state, b, g, y) ==
    LET p == probKnow(state.theta, b, g)
        dp == DpOf(QOf(p, g), g)
        hess == -Max(1, RDiv(dp * dp, PQ(p)))
        grad == RDiv((y * TSC - p) * dp, PQ(p))
    IN  [theta |-> state.theta - RDiv(grad * TSC, hess),
         var |-> Min(VAR_MAX, Max(VAR_MIN, RDiv(TSC * TSC, -hess)))]

updateThetaMAP(state, b, g, y) ==
    LET theta == state.theta
        V == state.var
        p == probKnow(theta, b, g)
        q == QOf(p, g)
        dp == DpOf(q, g)
        grad == RDiv((y * TSC - p) * dp, PQ(p)) - RDiv(theta * TSC, V)
        hess == -RDiv(dp * dp, PQ(p)) - RDiv(TSC * TSC, V)
        thetaNew == theta - RDiv(grad * TSC, hess)
        varNew == Min(VAR_MAX, Max(VAR_MIN, RDiv(TSC * TSC, -hess)))
    IN  [theta |-> thetaNew, var |-> varNew]

\* score of a candidate: fisherInfo(theta, c.b, c.g) - 0.01 * (c.exposure || 0)
Score(theta, c) == fisherInfo(theta, c.b, c.g) - 10 * c.exposure

pickBestItem_first(theta, candidates) ==
    IF Len(candidates) = 0 THEN 0 ELSE 1

\* The index (0: null) of the candidate the stable descending sort puts first:
\* the earliest candidate of the highest score.
pickBestItem(theta, candidates) ==
    IF Len(candidates) = 0 THEN 0
    ELSE CHOOSE i \in 1..Len(candidates) :
            /\ \A j \in 1..Len(candidates) :
                  Score(theta, candidates[j]) <= Score(theta, candidates[i])
            /\ \A j \in 1..(i - 1) :
                  Score(theta, candidates[j]) < Score(theta, candidates[i])

NoObs == [b |-> 0, g |-> 0, y |-> -1]

(***************************************************************************)
(* Assessment: POST /api/assessment/start and POST /api/assessment/answer  *)
(***************************************************************************)
YESNO_PSEUDO_COUNT == 15
YESNO_REAL_COUNT == 60
CAT_POOL == 200
G_YESNO == 50           \* 0.05
G_MC4 == 250            \* 0.25
VAR_SCREENED == 700     \* currentVar after screening: 0.7
SE2_TARGET == 90        \* SE <= 0.30, i.e. variance <= 0.09
CAT_CAP == 30
MAX_EXPOSURE == 3

Slots == {1, 2}

Item(type, b, g) == [type |-> type, b |-> b, g |-> g, exposure |-> 0]

NoTally == [n |-> 0, yes |-> 0]

\* the first k elements of a sequence
Take(s, k) == SubSeq(s, 1, Min(k, Len(s)))

\* the items /start creates: one yesno_real per sampled lexeme (up to 60),
\* then 15 pseudowords with b = 0
StartItems(lexemes) ==
    [i \in 1..Len(Take(lexemes, YESNO_REAL_COUNT)) |-> Item("yesno_real", lexemes[i], G_YESNO)]
    \o [i \in 1..YESNO_PSEUDO_COUNT |-> Item("yesno_pseudo", 0, G_YESNO)]

\* the mc4 items the screening block creates from the 200 most frequent lexemes
CatItems(lexemes) ==
    [i \in 1..Len(Take(lexemes, CAT_POOL)) |-> Item("mc4", lexemes[i], G_MC4)]

NewSession == [stage |-> "yesno", theta |-> 0, var |-> 1000, fa |-> 0, yesNoCompleted |-> FALSE]

NoOut == [status |-> 0, cont |-> FALSE, stage |-> "none", next |-> 0]

IdleReq == [pc |-> "idle", itemId |-> 0, y |-> 0,
            stage |-> "none", nextStage |-> "none", theta |-> 0, var |-> 0,
            eff |-> 0, fa |-> 0, next |-> 0, out |-> NoOut]

YesNoTypes == {"yesno_real", "yesno_pseudo"}
CatTypes == {"mc4", "recall"}

\* indexes of the items of the given types, in presentedAt (creation) order
OfTypes(its, types) == {i \in 1..Len(its) : its[i].type \in types}

\* the first of a set of items in that order (0: none); rows created by one
\* createMany are taken in the order they were created in
First(S) == IF S = {} THEN 0 ELSE CHOOSE i \in S : \A j \in S : i <= j

RECURSIVE SumOver(_, _)
SumOver(f, S) ==
    IF S = {} THEN 0
    ELSE LET i == CHOOSE x \in S : TRUE IN f[i] + SumOver(f, S \ {i})

\* prisma.assessmentResponse.count({ where: { sessionId, item: { type: 'mc4' } } })
CountCat == SumOver([i \in 1..Len(items) |-> tally[i].n], OfTypes(items, {"mc4"}))

\* falseAlarm = totalResponses > 0 ? min(0.5, pseudoHits / max(1, totalResponses)) : 0
FalseAlarm(totalResponses, pseudoHits) ==
    IF totalResponses > 0
    THEN Min(500, RDiv(pseudoHits * TSC, Max(1, totalResponses)))
    ELSE 0

\* theta0 from the bias-corrected hit rate k / n over the real words
Theta0(k, n, fa) ==
    LET corrected == Max(0, Min(TSC, RDiv((RDiv(k * TSC, n) - fa) * TSC, Max(1, TSC - fa))))
        acc == IF n > 0 THEN corrected ELSE 500
    IN  Max(-3 * TSC, Min(3 * TSC, (acc - 500) * 6))

\* SE <= 0.30 || countCat >= 30
StopRule_nocap(var, countCat) == var <= SE2_TARGET

StopRule(var, countCat) == var <= SE2_TARGET \/ countCat >= CAT_CAP

\* filtered[0] || candidates[0] || null over the session's mc4 items
NextCandidate(its) ==
    LET candidates == OfTypes(its, {"mc4"})
        filtered == {i \in candidates : its[i].exposure < MAX_EXPOSURE}
    IN  IF filtered # {} THEN First(filtered) ELSE First(candidates)

AssessIdle ==
    /\ bank = <<>>
    /\ sess = NewSession
    /\ items = <<>>
    /\ tally = <<>>
    /\ reqs = [r \in Slots |-> IdleReq]
    /\ lastNext = 0
    /\ arrived = 0
    /\ sessions = <<>>

(***************************************************************************)
(* Study review route (app/api/study/review/route.ts)                      *)
(***************************************************************************)
\* the ratings a request body may carry: any integer
RatingInputs == 0..5

\* StudyReviewSchema: rating is z.number().int().min(1).max(4)
ValidRating(rating) == rating >= 1 /\ rating <= 4

\* the row the placement route creates for a lexeme: stability 0.5, difficulty 5.0
NewLexemeState ==
    [stability |-> initState.s, difficulty |-> initState.d, dueIn |-> 0, reps |-> 0, lapses |-> 0]

IdleStudy == [pc |-> "idle", rating |-> 0, read |-> NewLexemeState, status |-> 0]

\* the Review row of a request: the rating and the stability and difficulty read
ReviewRecord_updated(rating, row) ==
    [rating |-> rating,
     stability |-> review([s |-> row.stability, d |-> row.difficulty], rating).s,
     difficulty |-> review([s |-> row.stability, d |-> row.difficulty], rating).d]

ReviewRecord(rating, row) ==
    [rating |-> rating, stability |-> row.stability, difficulty |-> row.difficulty]

StudyIdle ==
    /\ lexemeState = NewLexemeState
    /\ audit = <<>>
    /\ sreqs = [r \in Slots |-> IdleStudy]
    /\ sposted = 0

(***************************************************************************)
(* Placement answer route (app/api/placement/answer/route.ts)              *)
(***************************************************************************)
\* UserSettingsSchema: dailyGoal is z.number().int().min(5).max(200).default(20)
DAILY_GOAL_DEFAULT == 20
DAILY_GOAL_MIN == 5
DAILY_GOAL_MAX == 200

IdlePost == [pc |-> "idle", outcome |-> "none", newState |-> start, prefs |-> DAILY_GOAL_DEFAULT,
             status |-> 0, cont |-> FALSE]

\* merged is the dailyGoal of the body until the settings are read (0: the
\* body has none), then the dailyGoal of the merged settings
IdleSettings == [pc |-> "idle", merged |-> DAILY_GOAL_DEFAULT, status |-> 0, n |-> 0]

\* settings.placementState || start()
Current(stored) == IF stored = <<>> THEN start ELSE stored[1]

\* the state update() leaves after the given outcomes, from start()
RECURSIVE Replay(_)
Replay(outcomes) ==
    IF outcomes = <<>> THEN start
    ELSE update(Replay(SubSeq(outcomes, 1, Len(outcomes) - 1)), outcomes[Len(outcomes)])

RouteIdle ==
    /\ settings = <<>>
    /\ level = <<>>
    /\ preqs = [r \in Slots |-> IdlePost]
    /\ posted = 0
    /\ prefs = DAILY_GOAL_DEFAULT
    /\ setreq = IdleSettings

(***************************************************************************)
(* States of the components a specification leaves alone                   *)
(***************************************************************************)
FsrsIdle ==
    /\ mem = initState
    /\ days = 0
    /\ reviews = 0
    /\ rated = 0
    /\ StudyIdle

PlacementIdle ==
    /\ pst = start
    /\ answered = "none"
    /\ RouteIdle

IrtIdle ==
    /\ est = [theta |-> 0, var |-> VAR_MAX]
    /\ prior = [theta |-> 0, var |-> VAR_MAX]
    /\ obs = NoObs
    /\ cands = <<>>
    /\ chosen = 0
    /\ updates = 0

(***************************************************************************)
(* Scheduler specification: a memory state reviewed with any ratings       *)
(***************************************************************************)
StartStabilities == {1000, 3000, 5000, 20000, 500000, 600000}
StartDifficulties == {10000, 13000, 50000, 90000}

InitFsrs ==
    /\ mem \in [s : StartStabilities, d : StartDifficulties]
    /\ days = 0
    /\ reviews = 0
    /\ rated = 0
    /\ StudyIdle
    /\ PlacementIdle
    /\ IrtIdle
    /\ AssessIdle

Review_coupled ==
    /\ reviews < MaxReviews
    /\ \E rating \in Ratings :
          LET r == review([s |-> mem.s + mem.d \div 10, d |-> mem.d], rating)
          IN  /\ mem' = [s |-> r.s, d |-> r.d]
              /\ days' = r.days
              /\ rated' = rating
    /\ reviews' = reviews + 1
    /\ UNCHANGED <<studyVars, placeVars, irtVars, assessVars>>

Review ==
    /\ reviews < MaxReviews
    /\ \E rating \in Ratings :
          LET r == review(mem, rating)
          IN  /\ mem' = [s |-> r.s, d |-> r.d]
              /\ days' = r.days
              /\ rated' = rating
    /\ reviews' = reviews + 1
    /\ UNCHANGED <<studyVars, placeVars, irtVars, assessVars>>

NextFsrs == Review

SpecFsrs == InitFsrs /\ [][NextFsrs]_vars

(***************************************************************************)
(* Core specification: review() called directly, as any caller of the      *)
(* core can call it, with any integer as rating                            *)
(***************************************************************************)
ReviewAny ==
    /\ reviews < MaxReviews
    /\ \E rating \in RatingInputs :
          LET r == review(mem, rating)
          IN  /\ mem' = [s |-> r.s, d |-> r.d]
              /\ days' = r.days
              /\ rated' = rating
    /\ reviews' = reviews + 1
    /\ UNCHANGED <<studyVars, placeVars, irtVars, assessVars>>

NextCore == ReviewAny

SpecCore == InitFsrs /\ [][NextCore]_vars

(***************************************************************************)
(* Study specifications.  A request is one run of POST /api/study/review;  *)
(* each action is one database call of the handler together with the       *)
(* computation around it.  The card and the lexeme state exist.            *)
(***************************************************************************)
InitStudy ==
    /\ FsrsIdle
    /\ PlacementIdle
    /\ IrtIdle
    /\ AssessIdle

unstudied == <<coreVars, placeVars, irtVars, assessVars>>

\* StudyReviewSchema.safeParse: 400 unless the rating is valid
Parse(r) ==
    \E rating \in RatingInputs :
        sreqs' = [sreqs EXCEPT ![r] =
                    IF ValidRating(rating)
                    THEN [IdleStudy EXCEPT !.pc = "read", !.rating = rating]
                    ELSE [IdleStudy EXCEPT !.rating = rating, !.status = 400]]

\* a request arrives while no other is in flight
PostAlone ==
    /\ sposted < MaxStudyPosts
    /\ \A r \in Slots : sreqs[r].pc = "idle"
    /\ Parse(1)
    /\ sposted' = sposted + 1
    /\ UNCHANGED <<unstudied, lexemeState, audit>>

\* a request arrives, whatever else is in flight
PostAny ==
    /\ sposted < MaxStudyPosts
    /\ \E r \in Slots :
          /\ sreqs[r].pc = "idle"
          /\ Parse(r)
    /\ sposted' = sposted + 1
    /\ UNCHANGED <<unstudied, lexemeState, audit>>

\* prisma.card.findFirst and prisma.lexemeState.findUnique
ReadState ==
    \E r \in Slots :
        /\ sreqs[r].pc = "read"
        /\ sreqs' = [sreqs EXCEPT ![r].pc = "create", ![r].read = lexemeState]
        /\ UNCHANGED <<unstudied, lexemeState, audit, sposted>>

\* prisma.review.create: the snapshot of the state read
CreateReview ==
    \E r \in Slots :
        /\ sreqs[r].pc = "create"
        /\ audit' = Append(audit, ReviewRecord(sreqs[r].rating, sreqs[r].read))
        /\ sreqs' = [sreqs EXCEPT ![r].pc = "update"]
        /\ UNCHANGED <<unstudied, lexemeState, sposted>>

\* review() on the state read, then prisma.lexemeState.update
UpdateState ==
    \E r \in Slots :
        /\ sreqs[r].pc = "update"
        /\ LET q == sreqs[r]
               fsrsResult == review([s |-> q.read.stability, d |-> q.read.difficulty], q.rating)
           IN  lexemeState' = [stability |-> fsrsResult.s,
                               difficulty |-> fsrsResult.d,
                               dueIn |-> fsrsResult.days,
                               reps |-> q.read.reps + 1,
                               lapses |-> IF q.rating = 1 THEN q.read.lapses + 1 ELSE q.read.lapses]
        /\ sreqs' = [sreqs EXCEPT ![r] = [IdleStudy EXCEPT !.rating = sreqs[r].rating, !.status = 200]]
        /\ UNCHANGED <<unstudied, audit, sposted>>

\* requests one after the other
NextStudy == PostAlone \/ ReadState \/ CreateReview \/ UpdateState

SpecStudy == InitStudy /\ [][NextStudy]_vars

\* overlapping requests
NextStudyOverlap == PostAny \/ ReadState \/ CreateReview \/ UpdateState

SpecStudyOverlap == InitStudy /\ [][NextStudyOverlap]_vars

(***************************************************************************)
(* Staircase specification: update() applied from start() with any outcomes*)
(***************************************************************************)
InitPlacement ==
    /\ FsrsIdle
    /\ pst = start
    /\ answered = "none"
    /\ RouteIdle
    /\ IrtIdle
    /\ AssessIdle

Respond ==
    /\ pst.n < MaxResponses
    /\ \E outcome \in Outcomes :
          /\ pst' = update(pst, outcome)
          /\ answered' = outcome
    /\ UNCHANGED <<routeVars, fsrsVars, irtVars, assessVars>>

NextPlacement == Respond

SpecPlacement == InitPlacement /\ [][NextPlacement]_vars

(***************************************************************************)
(* Estimate specification: generateLevelEstimate() applied to a placement  *)
(* state whose theta and step are any of the inputs below.  Theta inputs   *)
(* are the tenths from -MaxTheta/10 to MaxTheta/10, converted to the       *)
(* nearest representable value as a number literal is, and the two values  *)
(* next to each; step inputs are the sixteenths up to MaxStep/16 and the   *)
(* two values next to each.                                                *)
(***************************************************************************)
ThetaInputs ==
    {RDiv(t * PSC, 10) + e : t \in (-MaxTheta)..MaxTheta, e \in {-1, 0, 1}}

StepInputs ==
    {(k * PSC) \div 16 + e : k \in 1..MaxStep, e \in {-1, 0, 1}}

InitEstimate ==
    /\ FsrsIdle
    /\ pst \in [theta : ThetaInputs, step : StepInputs, n : {N_MAX}]
    /\ answered = "none"
    /\ RouteIdle
    /\ IrtIdle
    /\ AssessIdle

GenerateEstimate ==
    /\ level = <<>>
    /\ level' = <<generateLevelEstimate(pst)>>
    /\ UNCHANGED <<stairVars, settings, preqs, posted, prefs, setreq,
                   fsrsVars, irtVars, assessVars>>

NextEstimate == GenerateEstimate

SpecEstimate == InitEstimate /\ [][NextEstimate]_vars

(***************************************************************************)
(* Placement run specification: update() applied from start() for as long  *)
(* as shouldStop() is false, as the answer route and the wizard do         *)
(***************************************************************************)
Answer ==
    /\ ~shouldStop(pst)
    /\ \E outcome \in Outcomes :
          /\ pst' = update(pst, outcome)
          /\ answered' = outcome
    /\ UNCHANGED <<routeVars, fsrsVars, irtVars, assessVars>>

NextRun == Answer

SpecRun == InitPlacement /\ [][NextRun]_vars

(***************************************************************************)
(* Placement route specification.  A request is one run of                 *)
(* POST /api/placement/answer; requests of the learner may overlap.  Each  *)
(* action is one database call of the handler together with the            *)
(* computation that follows it.  The learner starts with no stored state   *)
(* or with the state eight answers have left.  The knowledge profile and   *)
(* the study cards created after the estimate are not modelled.            *)
(***************************************************************************)
StoredStarts ==
    {<<>>, <<Replay(<<"easy", "hard", "easy", "hard", "easy", "hard", "easy", "hard">>)>>}

InitRoute ==
    /\ FsrsIdle
    /\ pst = start
    /\ answered = "none"
    /\ settings \in StoredStarts
    /\ level = <<>>
    /\ preqs = [r \in Slots |-> IdlePost]
    /\ posted = 0
    /\ prefs = DAILY_GOAL_DEFAULT
    /\ setreq = IdleSettings
    /\ IrtIdle
    /\ AssessIdle

unplaced == <<stairVars, fsrsVars, irtVars, bank, sess, items, tally, reqs, lastNext, arrived>>

\* the handler returns
Reply(r, status, cont) ==
    preqs' = [preqs EXCEPT ![r] = [IdlePost EXCEPT !.status = status, !.cont = cont]]

\* a request with a valid body arrives
PostAnswer ==
    /\ posted < MaxPosts
    /\ \E r \in Slots, outcome \in Outcomes :
          /\ preqs[r].pc = "idle"
          /\ preqs' = [preqs EXCEPT ![r] = [IdlePost EXCEPT !.pc = "check", !.outcome = outcome]]
    /\ posted' = posted + 1
    /\ UNCHANGED <<unplaced, settings, level, prefs, setreq, sessions>>

\* prisma.levelEstimate.findUnique: 409 when the learner has an estimate
CheckEstimate ==
    \E r \in Slots :
        /\ preqs[r].pc = "check"
        /\ IF level # <<>>
           THEN Reply(r, 409, FALSE)
           ELSE preqs' = [preqs EXCEPT ![r].pc = "load"]
        /\ UNCHANGED <<unplaced, settings, level, posted, prefs, setreq, sessions>>

\* prisma.user.findUnique of the settings and prisma.lexeme.findUnique, then
\* update() on the state read and shouldStop() on the result
LoadState ==
    \E r \in Slots :
        /\ preqs[r].pc = "load"
        /\ LET newState == update(Current(settings), preqs[r].outcome)
           IN  preqs' = [preqs EXCEPT ![r].pc = IF shouldStop(newState) THEN "create" ELSE "save",
                                      ![r].newState = newState,
                                      ![r].prefs = prefs]
        /\ UNCHANGED <<unplaced, settings, level, posted, prefs, setreq, sessions>>

\* prisma.user.update: the settings read, with the new placement state
SaveState ==
    \E r \in Slots :
        /\ preqs[r].pc = "save"
        /\ settings' = <<preqs[r].newState>>
        /\ prefs' = preqs[r].prefs
        /\ Reply(r, 200, TRUE)
        /\ UNCHANGED <<unplaced, level, posted, setreq, sessions>>

\* prisma.levelEstimate.create: userId is the key of the row, a second
\* create throws and the handler answers 500
CreateEstimate ==
    \E r \in Slots :
        /\ preqs[r].pc = "create"
        /\ IF level # <<>>
           THEN Reply(r, 500, FALSE) /\ UNCHANGED level
           ELSE /\ level' = <<generateLevelEstimate(preqs[r].newState)>>
                /\ preqs' = [preqs EXCEPT ![r].pc = "clear"]
        /\ UNCHANGED <<unplaced, settings, posted, prefs, setreq, sessions>>

\* prisma.user.update: the settings read, with placementState undefined
ClearState ==
    \E r \in Slots :
        /\ preqs[r].pc = "clear"
        /\ settings' = <<>>
        /\ prefs' = preqs[r].prefs
        /\ Reply(r, 200, FALSE)
        /\ UNCHANGED <<unplaced, level, posted, setreq, sessions>>

NextRoute ==
    \/ PostAnswer
    \/ CheckEstimate \/ LoadState \/ SaveState \/ CreateEstimate \/ ClearState

SpecRoute == InitRoute /\ [][NextRoute]_vars

(***************************************************************************)
(* Settings specification: POST /api/settings (app/api/settings/route.ts)  *)
(* next to the placement answer route, which keeps its state in the same   *)
(* settings record.  The body carries a dailyGoal or none.                 *)
(***************************************************************************)
GoalInputs == {<<>>, <<3>>, <<5>>, <<50>>}

\* UserSettingsSchema.partial().safeParse(body)
ValidGoal(body) == body = <<>> \/ (body[1] >= DAILY_GOAL_MIN /\ body[1] <= DAILY_GOAL_MAX)

\* the request arrives: 400 unless the body is valid
PostSettings ==
    /\ setreq.pc = "idle"
    /\ setreq.n < MaxSettingsPosts
    /\ \E body \in GoalInputs :
          setreq' = IF ValidGoal(body)
                    THEN [pc |-> "read", merged |-> IF body = <<>> THEN 0 ELSE body[1],
                          status |-> 0, n |-> setreq.n + 1]
                    ELSE [IdleSettings EXCEPT !.status = 400, !.n = setreq.n + 1]
    /\ UNCHANGED <<unplaced, settings, level, preqs, posted, prefs, sessions>>

\* prisma.user.findUnique of the settings and the merge { ...existing, ...body }
ReadSettings ==
    /\ setreq.pc = "read"
    /\ setreq' = [setreq EXCEPT !.pc = "write",
                                !.merged = IF setreq.merged = 0 THEN prefs ELSE setreq.merged]
    /\ UNCHANGED <<unplaced, settings, level, preqs, posted, prefs, sessions>>

\* UserSettingsSchema.parse(merged), which keeps the five user-setting
\* fields and strips every other key, then prisma.user.update with the result
WriteSettings ==
    /\ setreq.pc = "write"
    /\ prefs' = setreq.merged
    /\ settings' = <<>>
    /\ setreq' = [IdleSettings EXCEPT !.merged = setreq.merged, !.status = 200, !.n = setreq.n]
    /\ UNCHANGED <<unplaced, level, preqs, posted, sessions>>

NextSettings ==
    \/ PostAnswer
    \/ CheckEstimate \/ LoadState \/ SaveState \/ CreateEstimate \/ ClearState
    \/ PostSettings \/ ReadSettings \/ WriteSettings

SpecSettings == InitRoute /\ [][NextSettings]_vars

(***************************************************************************)
(* Lifecycle specification: POST /api/assessment/start and                 *)
(* GET /api/assessment/result next to the placement answer route.  Of an   *)
(* assessment session only the stage is kept here; the learner starts with *)
(* no session or with a completed one.                                     *)
(***************************************************************************)
InitLifecycle ==
    /\ FsrsIdle
    /\ pst = start
    /\ answered = "none"
    /\ settings \in StoredStarts
    /\ level = <<>>
    /\ preqs = [r \in Slots |-> IdlePost]
    /\ posted = 0
    /\ prefs = DAILY_GOAL_DEFAULT
    /\ setreq = IdleSettings
    /\ IrtIdle
    /\ bank = <<>>
    /\ sess = NewSession
    /\ items = <<>>
    /\ tally = <<>>
    /\ reqs = [r \in Slots |-> IdleReq]
    /\ lastNext = 0
    /\ arrived = 0
    /\ sessions \in {<<>>, <<"done">>}

\* prisma.assessmentSession.create with stage 'yesno' (and the items of the session)
StartAssessment ==
    /\ Len(sessions) < MaxSessions
    /\ sessions' = Append(sessions, NewSession.stage)
    /\ UNCHANGED <<unplaced, routeVars>>

\* prisma.assessmentSession.findFirst of a done session (404 without one),
\* then prisma.levelEstimate.upsert: a new row gets cefrBand 'B1', an
\* existing row keeps its band
GetResult ==
    /\ \E i \in 1..Len(sessions) : sessions[i] = "done"
    /\ \E confidence \in {(3 * CSC) \div 10, CSC \div 2} :
          level' = IF level = <<>>
                   THEN <<[cefrBand |-> "B1", confidence |-> confidence]>>
                   ELSE level
    /\ UNCHANGED <<unplaced, settings, preqs, posted, prefs, setreq, sessions>>

NextLifecycle ==
    \/ PostAnswer
    \/ CheckEstimate \/ LoadState \/ SaveState \/ CreateEstimate \/ ClearState
    \/ StartAssessment \/ GetResult

SpecLifecycle == InitLifecycle /\ [][NextLifecycle]_vars

(***************************************************************************)
(* MAP specification: updateThetaMAP applied to ability states, items and  *)
(* outcomes drawn from small sets                                          *)
(***************************************************************************)
StartThetas == {-2000, -500, 0, 500, 2000}
StartVariances == {700, 1000}
Difficulties == {-500, 0, 500}
Guessings == {50, 250}

InitMap ==
    /\ FsrsIdle
    /\ PlacementIdle
    /\ est \in [theta : StartThetas, var : StartVariances]
    /\ prior = est
    /\ obs = NoObs
    /\ cands = <<>>
    /\ chosen = 0
    /\ updates = 0
    /\ AssessIdle

\* one response to an item (b, g) with outcome y
Observe ==
    /\ updates < MaxUpdates
    /\ \E b \in Difficulties, g \in Guessings, y \in {0, 1} :
          /\ est' = updateThetaMAP(est, b, g, y)
          /\ obs' = [b |-> b, g |-> g, y |-> y]
    /\ prior' = est
    /\ updates' = updates + 1
    /\ UNCHANGED <<fsrsVars, placeVars, assessVars, cands, chosen>>

NextMap == Observe

SpecMap == InitMap /\ [][NextMap]_vars

(***************************************************************************)
(* Selection specification: pickBestItem applied to candidate lists        *)
(***************************************************************************)
PickGuessings == {0, 50, 250}
Offsets == {250, 500, 1000, 2000}

Candidate(b, g, e) == [b |-> b, g |-> g, exposure |-> e]

Orders == {<<1, 2, 3>>, <<2, 3, 1>>, <<3, 1, 2>>}

InitPick ==
    /\ FsrsIdle
    /\ PlacementIdle
    /\ est \in [theta : StartThetas, var : {VAR_MAX}]
    /\ prior = est
    /\ obs = NoObs
    /\ cands = <<>>
    /\ chosen = 0
    /\ updates = 0
    /\ AssessIdle

\* a list of three candidates below, at and above the current theta, in any
\* order, with a common guessing parameter; the one below may be over-exposed
Offer ==
    /\ \E g \in PickGuessings, lo \in Offsets, hi \in {250, 2000}, e \in {0, 3}, o \in Orders :
          LET triple == <<Candidate(est.theta - lo, g, e),
                          Candidate(est.theta, g, 0),
                          Candidate(est.theta + hi, g, 0)>>
              cs == [i \in 1..3 |-> triple[o[i]]]
          IN  /\ cands' = cs
              /\ chosen' = pickBestItem(est.theta, cs)
    /\ UNCHANGED <<fsrsVars, placeVars, assessVars, est, prior, obs, updates>>

NextPick == Offer

SpecPick == InitPick /\ [][NextPick]_vars

(***************************************************************************)
(* Assessment specifications.  A request is one run of the answer handler; *)
(* each action is one database call of the handler together with the       *)
(* computation that follows it up to the next call (consecutive reads are  *)
(* taken together).  The client sends either an id the server does not     *)
(* know (the wizard's temporary ids and '') or the id it last received as  *)
(* nextItem.                                                               *)
(***************************************************************************)
Banks == {<<>>, <<0>>, <<2000, 0>>}

InitAssess ==
    /\ FsrsIdle
    /\ PlacementIdle
    /\ IrtIdle
    /\ bank \in Banks
    /\ sess = NewSession
    /\ items = StartItems(bank)
    /\ tally = [i \in 1..Len(StartItems(bank)) |-> NoTally]
    /\ reqs = [r \in Slots |-> IdleReq]
    /\ lastNext = 0
    /\ arrived = 0
    /\ sessions = <<>>

others == <<fsrsVars, placeVars, irtVars, bank, sessions>>

Accept(r) ==
    \E id \in {0, lastNext}, y \in {0, 1} :
        reqs' = [reqs EXCEPT ![r] = [IdleReq EXCEPT !.pc = "load", !.itemId = id, !.y = y]]

\* a request arrives while no other is in flight
ArriveAlone ==
    /\ arrived < MaxAnswers
    /\ \A r \in Slots : reqs[r].pc = "idle"
    /\ Accept(1)
    /\ arrived' = arrived + 1
    /\ UNCHANGED <<others, sess, items, tally, lastNext>>

\* a request arrives, whatever else is in flight
ArriveAny ==
    /\ arrived < MaxOverlapping
    /\ \E r \in Slots :
          /\ reqs[r].pc = "idle"
          /\ Accept(r)
    /\ arrived' = arrived + 1
    /\ UNCHANGED <<others, sess, items, tally, lastNext>>

\* the handler returns: the response is kept in the slot, the client notes nextItem
Return(r, status, cont, stage, next) ==
    /\ reqs' = [reqs EXCEPT ![r] = [IdleReq EXCEPT !.out =
                  [status |-> status, cont |-> cont, stage |-> stage, next |-> next]]]
    /\ lastNext' = IF cont /\ next # 0 THEN next ELSE lastNext

\* prisma.assessmentSession.findUnique
Load ==
    \E r \in Slots :
        /\ reqs[r].pc = "load"
        /\ reqs' = [reqs EXCEPT ![r].pc = "find",
                                ![r].stage = sess.stage,
                                ![r].nextStage = sess.stage,
                                ![r].theta = sess.theta,
                                ![r].var = sess.var]
        /\ UNCHANGED <<others, sess, items, tally, lastNext, arrived>>

\* prisma.assessmentItem.findFirst by id, else the first item of the stage's types
Find ==
    \E r \in Slots :
        /\ reqs[r].pc = "find"
        /\ LET q == reqs[r]
               byId == IF q.itemId \in 1..Len(items) THEN q.itemId ELSE 0
               fallback == First(OfTypes(items, IF q.stage = "yesno" THEN YesNoTypes ELSE CatTypes))
               effectiveItem == IF byId # 0 THEN byId ELSE fallback
           IN  IF effectiveItem = 0
               THEN Return(r, 400, FALSE, "none", 0)
               ELSE /\ reqs' = [reqs EXCEPT ![r].pc = "record", ![r].eff = effectiveItem]
                    /\ UNCHANGED lastNext
        /\ UNCHANGED <<others, sess, items, tally, arrived>>

\* prisma.assessmentResponse.create (the outcome y of a response to an mc4
\* item is read by no query of the handler; the tally keeps y for yes/no items)
Record ==
    \E r \in Slots :
        /\ reqs[r].pc = "record"
        /\ LET q == reqs[r]
           IN  tally' = [tally EXCEPT ![q.eff] =
                          [n |-> @.n + 1,
                           yes |-> @.yes + (IF items[q.eff].type \in YesNoTypes THEN q.y ELSE 0)]]
        /\ reqs' = [reqs EXCEPT ![r].pc = "expose"]
        /\ UNCHANGED <<others, sess, items, lastNext, arrived>>

Expose_reopens ==
    \E r \in Slots :
        /\ reqs[r].pc = "expose"
        /\ LET q == reqs[r]
           IN  /\ items' = [items EXCEPT ![q.eff].exposure = @ + 1]
               /\ reqs' = [reqs EXCEPT ![r].pc = IF q.stage = "yesno" THEN "tally" ELSE "map"]
               /\ UNCHANGED lastNext
        /\ UNCHANGED <<others, sess, tally, arrived>>

\* prisma.assessmentItem.update: exposure increment
Expose ==
    \E r \in Slots :
        /\ reqs[r].pc = "expose"
        /\ LET q == reqs[r]
           IN  /\ items' = [items EXCEPT ![q.eff].exposure = @ + 1]
               /\ IF q.stage = "yesno"
                  THEN reqs' = [reqs EXCEPT ![r].pc = "tally"] /\ UNCHANGED lastNext
                  ELSE IF q.nextStage = "cat"
                  THEN reqs' = [reqs EXCEPT ![r].pc = "map"] /\ UNCHANGED lastNext
                  ELSE Return(r, 200, TRUE, q.nextStage, 0)
        /\ UNCHANGED <<others, sess, tally, arrived>>

\* the screening block's reads: groupBy, count, findMany, findMany
Tally ==
    \E r \in Slots :
        /\ reqs[r].pc = "tally"
        /\ LET yn == OfTypes(items, YesNoTypes)
               totalResponses == Cardinality({i \in yn : tally[i].n > 0})
               pseudoHits == SumOver([i \in 1..Len(items) |-> tally[i].yes], OfTypes(items, {"yesno_pseudo"}))
               k == SumOver([i \in 1..Len(items) |-> tally[i].yes], OfTypes(items, {"yesno_real"}))
               n == SumOver([i \in 1..Len(items) |-> tally[i].n], OfTypes(items, {"yesno_real"}))
               falseAlarm == FalseAlarm(totalResponses, pseudoHits)
           IN  reqs' = [reqs EXCEPT ![r].pc = "toCat",
                                    ![r].fa = falseAlarm,
                                    ![r].theta = Theta0(k, n, falseAlarm),
                                    ![r].var = VAR_SCREENED]
        /\ UNCHANGED <<others, sess, items, tally, lastNext, arrived>>

\* prisma.assessmentSession.update: yesNoCompleted, falseAlarmRate, theta0, 0.7, stage 'cat'
ToCat ==
    \E r \in Slots :
        /\ reqs[r].pc = "toCat"
        /\ LET q == reqs[r]
           IN  sess' = [stage |-> "cat", theta |-> q.theta, var |-> VAR_SCREENED,
                        fa |-> q.fa, yesNoCompleted |-> TRUE]
        /\ reqs' = [reqs EXCEPT ![r].pc = "seed", ![r].nextStage = "cat"]
        /\ UNCHANGED <<others, items, tally, lastNext, arrived>>

\* prisma.lexeme.findMany and prisma.assessmentItem.createMany of the CAT pool
Seed ==
    \E r \in Slots :
        /\ reqs[r].pc = "seed"
        /\ items' = items \o CatItems(bank)
        /\ tally' = tally \o [i \in 1..Len(CatItems(bank)) |-> NoTally]
        /\ reqs' = [reqs EXCEPT ![r].pc = "map"]
        /\ UNCHANGED <<others, sess, lastNext, arrived>>

\* updateThetaMAP on the handler's thetaState, then
\* prisma.assessmentSession.update of currentTheta and currentVar
Map ==
    \E r \in Slots :
        /\ reqs[r].pc = "map"
        /\ LET q == reqs[r]
               it == items[q.eff]
               updated == updateThetaMAP([theta |-> q.theta, var |-> q.var],
                                         it.b, IF it.g = 0 THEN G_MC4 ELSE it.g, q.y)
           IN  /\ sess' = [sess EXCEPT !.theta = updated.theta, !.var = updated.var]
               /\ reqs' = [reqs EXCEPT ![r].pc = "select",
                                       ![r].theta = updated.theta,
                                       ![r].var = updated.var]
        /\ UNCHANGED <<others, items, tally, lastNext, arrived>>

\* prisma.assessmentItem.findMany of the mc4 candidates and the choice of next
Select ==
    \E r \in Slots :
        /\ reqs[r].pc = "select"
        /\ LET next == NextCandidate(items)
           IN  reqs' = [reqs EXCEPT ![r].pc = IF next = 0 THEN "finish" ELSE "count",
                                    ![r].next = next]
        /\ UNCHANGED <<others, sess, items, tally, lastNext, arrived>>

\* prisma.assessmentResponse.count of the mc4 responses and the stopping rule
Count ==
    \E r \in Slots :
        /\ reqs[r].pc = "count"
        /\ LET q == reqs[r]
           IN  IF StopRule(q.var, CountCat)
               THEN reqs' = [reqs EXCEPT ![r].pc = "finish"] /\ UNCHANGED lastNext
               ELSE Return(r, 200, TRUE, "cat", q.next)
        /\ UNCHANGED <<others, sess, items, tally, arrived>>

\* prisma.assessmentSession.update: stage 'done'
Finish ==
    \E r \in Slots :
        /\ reqs[r].pc = "finish"
        /\ sess' = [sess EXCEPT !.stage = "done"]
        /\ Return(r, 200, FALSE, "done", 0)
        /\ UNCHANGED <<others, items, tally, arrived>>

\* requests one after the other
NextAssess ==
    \/ ArriveAlone
    \/ Load \/ Find \/ Record \/ Expose \/ Tally \/ ToCat \/ Seed \/ Map \/ Select \/ Count \/ Finish

SpecAssess == InitAssess /\ [][NextAssess]_vars

\* overlapping requests
NextOverlap ==
    \/ ArriveAny
    \/ Load \/ Find \/ Record \/ Expose \/ Tally \/ ToCat \/ Seed \/ Map \/ Select \/ Count \/ Finish

SpecOverlap == InitAssess /\ [][NextOverlap]_vars

\* the item ids a request may carry besides an unknown one and the last
\* nextItem: the id of any row of the session, here of the first real word
\* and of the first two pseudowords
ProbeIds ==
    LET real == OfTypes(items, {"yesno_real"})
        pseudo == OfTypes(items, {"yesno_pseudo"})
    IN  {0, lastNext, First(real), First(pseudo), First(pseudo \ {First(pseudo)})}

\* a request with any of these ids arrives, whatever else is in flight
ArriveProbing ==
    /\ arrived < MaxProbes
    /\ \E r \in Slots, id \in ProbeIds, y \in {0, 1} :
          /\ reqs[r].pc = "idle"
          /\ reqs' = [reqs EXCEPT ![r] = [IdleReq EXCEPT !.pc = "load", !.itemId = id, !.y = y]]
    /\ arrived' = arrived + 1
    /\ UNCHANGED <<others, sess, items, tally, lastNext>>

\* overlapping requests that carry ids of the session's rows
NextProbe ==
    \/ ArriveProbing
    \/ Load \/ Find \/ Record \/ Expose \/ Tally \/ ToCat \/ Seed \/ Map \/ Select \/ Count \/ Finish

SpecProbe == InitAssess /\ [][NextProbe]_vars

(***************************************************************************)
(* Properties of the scheduler                                             *)
(***************************************************************************)

\* C1: after every review, whatever the prior state and the ratings applied,
\* the stability is within [0.3, 60] and the difficulty within [1.3, 9.0].
C1_Clamped ==
    reviews > 0 =>
        /\ S_MIN <= mem.s /\ mem.s <= S_MAX
        /\ D_MIN <= mem.d /\ mem.d <= D_MAX

\* a review that hit the stability ceiling and the difficulty floor
C1_Witness == reviews > 0 /\ mem.s = S_MAX /\ mem.d = D_MIN

\* C2 as stated: for every prior state the intervals are strictly ordered by
\* rating, easy > good > hard > again.
C2_StrictOrder ==
    /\ getNextInterval(mem, 4) > getNextInterval(mem, 3)
    /\ getNextInterval(mem, 3) > getNextInterval(mem, 2)
    /\ getNextInterval(mem, 2) > getNextInterval(mem, 1)

\* C2 amended: for every prior state the intervals are ordered by rating, but
\* not strictly: easy >= good >= hard >= again (the clamp of the stability
\* and the one-day floor of the interval make neighbours equal).
C2_WeakOrder ==
    /\ getNextInterval(mem, 4) >= getNextInterval(mem, 3)
    /\ getNextInterval(mem, 3) >= getNextInterval(mem, 2)
    /\ getNextInterval(mem, 2) >= getNextInterval(mem, 1)

\* a reviewed state where easy and good differ while hard and again coincide
C2_Witness ==
    /\ reviews > 0
    /\ getNextInterval(mem, 4) > getNextInterval(mem, 3)
    /\ getNextInterval(mem, 3) > getNextInterval(mem, 2)
    /\ getNextInterval(mem, 2) = getNextInterval(mem, 1)

(***************************************************************************)
(* Properties of the staircase                                             *)
(***************************************************************************)

\* C3: along every sequence of outcomes applied from start(), step never
\* increases from one state to the next, and shouldStop holds once N_MAX
\* responses have been given.
C3_Convergence ==
    [][ /\ pst'.step <= pst.step
        /\ (pst'.n >= N_MAX => shouldStop(pst')) ]_vars

\* fifteen responses given, step halved seven times, shouldStop true
C3_Witness == pst.n = N_MAX /\ pst.step * 128 = PSC /\ shouldStop(pst)

(***************************************************************************)
(* Properties of the IRT helpers                                           *)
(***************************************************************************)

\* the candidate list is a triple of zero-exposure candidates with one
\* guessing parameter whose difficulties lie below, at and above theta
SpanningTriple ==
    /\ Len(cands) = 3
    /\ \A i \in 1..3 : cands[i].exposure = 0 /\ cands[i].g = cands[1].g
    /\ \E i \in 1..3 : cands[i].b < est.theta
    /\ \E i \in 1..3 : cands[i].b = est.theta
    /\ \E i \in 1..3 : cands[i].b > est.theta

\* C8 as stated: for every such triple pickBestItem returns the candidate
\* whose difficulty equals theta.
C8_AtThetaAlways ==
    SpanningTriple => chosen # 0 /\ cands[chosen].b = est.theta

\* C8 amended: pickBestItem returns the at-theta candidate of such a triple
\* when the guessing parameter is 0, and for a positive guessing parameter
\* (up to 0.25) when the lower difficulty is at least 1 below theta; with
\* g > 0 the information peaks at a difficulty below theta, so a candidate
\* less than 1 below theta can be returned instead.
C8_AtThetaWhenPeaked ==
    (/\ SpanningTriple
     /\ \/ cands[1].g = 0
        \/ \A i \in 1..3 : cands[i].b < est.theta => cands[i].b <= est.theta - TSC)
    => chosen # 0 /\ cands[chosen].b = est.theta

\* a triple with g = 0.25 and the lower candidate 2 below theta, listed
\* first, for which the at-theta candidate was returned
C8_Witness ==
    /\ SpanningTriple
    /\ cands[1].g = 250
    /\ cands[1].b = est.theta - 2 * TSC
    /\ chosen # 0 /\ cands[chosen].b = est.theta

\* C10: a correct response (y = 1) returns a theta strictly greater than the
\* prior theta, an incorrect one (y = 0) a theta strictly smaller.
C10_Direction ==
    /\ obs.y = 1 => est.theta > prior.theta
    /\ obs.y = 0 => est.theta < prior.theta

(***************************************************************************)
(* Properties of the assessment answer handler                             *)
(***************************************************************************)

\* no request is in flight
Quiet == \A r \in Slots : reqs[r].pc = "idle"

\* the mc4 candidates of the session that are not over-exposed
Eligible == {i \in OfTypes(items, {"mc4"}) : items[i].exposure < MAX_EXPOSURE}

\* C4: a session still in the CAT stage when a request has been answered has
\* fewer than 30 recorded CAT responses and a standard error above 0.30: with
\* the 30th CAT response at the latest the session is done.
C4_CatTerminates ==
    (Quiet /\ sess.stage = "cat") => (CountCat < CAT_CAP /\ sess.var > SE2_TARGET)

\* the session was marked done by the request that recorded the 30th CAT response
C4_Witness ==
    /\ Quiet
    /\ sess.stage = "done"
    /\ CountCat = CAT_CAP
    /\ \E r \in Slots : reqs[r].out.status = 200 /\ ~reqs[r].out.cont

\* C5: the stage of the session only moves forward: it never goes from cat
\* back to yesno and never leaves done, under any interleaving of requests.
C5_StageOrder ==
    [][ /\ (sess.stage = "cat" => sess'.stage # "yesno")
        /\ (sess.stage = "done" => sess'.stage = "done") ]_vars

\* C6: the session leaves the screening stage, and theta and the variance
\* are touched, only when every screening item has a recorded response.
C6_ScreeningFirst ==
    (sess.stage # "yesno" \/ sess.theta # NewSession.theta \/ sess.var # NewSession.var)
        => \A i \in OfTypes(items, YesNoTypes) : tally[i].n > 0

\* C7: the item a response proposes as next CAT item has an exposure count
\* below 3 and maximizes fisherInfo - 0.01 * exposure at the current theta
\* among the candidates whose exposure count is below 3.
C7_BestEligible ==
    \A r \in Slots :
        (reqs[r].pc = "idle" /\ reqs[r].out.cont /\ reqs[r].out.next # 0) =>
            /\ reqs[r].out.next \in Eligible
            /\ \A j \in Eligible :
                  Score(sess.theta, items[j]) <= Score(sess.theta, items[reqs[r].out.next])

\* C9: a CAT-stage response says continue only while an eligible candidate
\* remains; with none left the session is done and continue is false.
C9_Exhaustion ==
    \A r \in Slots :
        (reqs[r].pc = "idle" /\ reqs[r].out.status = 200 /\ reqs[r].out.stage = "cat"
            /\ Eligible = {})
        => (~reqs[r].out.cont /\ sess.stage = "done")

\* C11: from one answered response to the next the variance stored for the
\* session never increases, and after every updateThetaMAP call it lies
\* within [0.02, 1.0].
C11_Variance ==
    [][ /\ sess'.var <= sess.var
        /\ (\E r \in Slots : reqs[r].pc = "map" /\ reqs'[r].pc = "select")
              => (sess'.var >= TSC \div 50 /\ sess'.var <= TSC) ]_vars

\* a CAT response has been answered and the MAP update has brought the
\* variance below the 0.7 the screening block wrote
C11_Witness ==
    /\ Quiet
    /\ sess.stage = "cat"
    /\ CountCat >= 1
    /\ sess.var < VAR_SCREENED

\* C12: once the session is marked done, no later answer request changes
\* the theta or the variance stored for it.
C12_Frozen ==
    [][ sess.stage = "done" => (sess'.theta = sess.theta /\ sess'.var = sess.var) ]_vars

\* a request that arrived after the session was marked done has been answered
C12_Witness ==
    /\ Quiet
    /\ sess.stage = "done"
    /\ \E r \in Slots :
          reqs[r].out.status = 200 /\ reqs[r].out.cont /\ reqs[r].out.stage = "done"

\* C13: an answer request sent to a session that is already done is a
\* no-op: it records no new response and changes no exposure count.
C13_DoneNoOp ==
    [][ sess.stage = "done" => (tally' = tally /\ items' = items) ]_vars

(***************************************************************************)
(* Properties of the placement answer route                                *)
(***************************************************************************)

\* C14: when answer requests of one learner overlap, no response is lost:
\* every request that saves a placement state saves the stored state
\* advanced by its own response (n one higher, theta moved by the step).
C14_NoLostUpdate ==
    [][ \A r \in Slots :
          (preqs[r].pc = "save" /\ preqs'[r].pc = "idle")
              => settings' = <<update(Current(settings), preqs[r].outcome)>> ]_vars

(***************************************************************************)
(* Properties of the study review route and of review()                    *)
(***************************************************************************)

\* no review request is in flight
StudyQuiet == \A r \in Slots : sreqs[r].pc = "idle"

\* C15: the Review row written for a review holds the stability and the
\* difficulty the lexeme state has immediately before the review's update,
\* and the update stores review() of exactly those values.
C15_Snapshot ==
    [][ lexemeState' # lexemeState =>
          /\ audit # <<>>
          /\ LET rec == audit[Len(audit)]
                 fsrsResult == review([s |-> rec.stability, d |-> rec.difficulty], rec.rating)
             IN  /\ rec.stability = lexemeState.stability
                 /\ rec.difficulty = lexemeState.difficulty
                 /\ lexemeState'.stability = fsrsResult.s
                 /\ lexemeState'.difficulty = fsrsResult.d ]_vars

\* two reviews have been applied and the second row shows the state the
\* first review left, which differs from the initial one
C15_Witness ==
    /\ StudyQuiet
    /\ Len(audit) >= 2
    /\ lexemeState.reps = Len(audit)
    /\ audit[2].stability # audit[1].stability
    /\ audit[2].difficulty # audit[1].difficulty

\* C16: review(prev, rating) returns stability clamp(prev.s * m, 0.3, 60)
\* with m = 0.5, 0.9, 1.6, 2.2 for again, hard, good, easy, and difficulty
\* clamp(prev.d + delta, 1.3, 9.0) with delta = +0.3 for again, -0.2 for
\* easy and 0 for hard and good.
C16_UpdateRule ==
    [][ rated' \in Ratings =>
          LET tenths == <<5, 9, 16, 22>>
              delta == <<(3 * SC) \div 10, 0, 0, -((2 * SC) \div 10)>>
              product == RDiv(mem.s * tenths[rated'], 10)
              shifted == mem.d + delta[rated']
          IN  /\ mem'.s = (IF product < (3 * SC) \div 10 THEN (3 * SC) \div 10
                            ELSE IF product > 60 * SC THEN 60 * SC ELSE product)
              /\ mem'.d = (IF shifted < (13 * SC) \div 10 THEN (13 * SC) \div 10
                            ELSE IF shifted > 9 * SC THEN 9 * SC ELSE shifted) ]_vars

\* the state {2.0, 5.0} rated good has become {3.2, 5.0}
C16_Witness ==
    /\ reviews = 1
    /\ rated = 3
    /\ mem = [s |-> (32 * SC) \div 10, d |-> 5 * SC]

\* C17: review() does not coerce a rating outside {1,2,3,4}: such a rating
\* is rejected before any computation and yields no new stability,
\* difficulty or interval.
C17_Rejected ==
    [][ rated' \notin Ratings => (mem' = mem /\ days' = days) ]_vars

(***************************************************************************)
(* Properties of the staircase                                             *)
(***************************************************************************)

\* C18: update(state, outcome) returns theta = state.theta + state.step for
\* easy and state.theta - state.step for hard, n = state.n + 1, and step
\* = state.step / 2 exactly when the new n is even, otherwise step unchanged.
C18_UpdateRule ==
    [][ answered' \in Outcomes =>
          /\ answered' = "easy" => pst'.theta = pst.theta + pst.step
          /\ answered' = "hard" => pst'.theta = pst.theta - pst.step
          /\ pst'.n = pst.n + 1
          /\ pst'.n % 2 = 0 => 2 * pst'.step = pst.step
          /\ pst'.n % 2 = 1 => pst'.step = pst.step ]_vars

\* easy, hard, easy, hard from start(): theta is back at 0 and the step has
\* been halved twice
C18_Witness ==
    /\ pst = [theta |-> 0, step |-> PSC \div 4, n |-> 4]
    /\ answered = "hard"

\* C19: shouldStop(state) is true exactly when (n >= 8 and step <= 0.25) or
\* n >= 12.
C19_DocumentedStop ==
    shouldStop(pst) <=> ((pst.n >= 8 /\ 4 * pst.step <= PSC) \/ pst.n >= 12)

\* C20: in every placement state reached from start() by updates made while
\* shouldStop is false, theta lies within [-3, 3].
C20_ThetaRange ==
    pst.theta >= -3 * PSC /\ pst.theta <= 3 * PSC

\* the pseudoword items that have a recorded response, and those of them
\* with a response "known"
PseudoAnswered == {i \in OfTypes(items, {"yesno_pseudo"}) : tally[i].n > 0}
PseudoKnown == {i \in PseudoAnswered : tally[i].yes > 0}

\* C21: the falseAlarmRate the screening block computes and stores equals
\* min(0.5, k / m), m the number of pseudoword items answered and k the
\* number of those answered as known (0 when no pseudoword was answered).
C21_FalseAlarm ==
    [][ \A r \in Slots :
          (reqs[r].pc = "tally" /\ reqs'[r].pc = "toCat") =>
              LET m == Cardinality(PseudoAnswered)
                  k == Cardinality(PseudoKnown)
              IN  reqs'[r].fa = (IF m = 0 THEN 0
                                 ELSE IF 2 * k >= m THEN TSC \div 2
                                 ELSE RDiv(k * TSC, m)) ]_vars

\* C22: at most one AssessmentResponse is recorded per item of the session,
\* whatever item ids the answer requests carry.
C22_OneResponsePerItem ==
    \A i \in 1..Len(items) : tally[i].n <= 1

(***************************************************************************)
(* Properties of the learner's estimation states                           *)
(***************************************************************************)

\* the assessment sessions of the learner that are not done
OpenSessions == {i \in 1..Len(sessions) : sessions[i] # "done"}

\* C23: a learner has at most one active estimation state: never two
\* assessment sessions that are not done, and never a stored placement
\* state together with an assessment session that is not done.
C23_Exclusive ==
    /\ Cardinality(OpenSessions) <= 1
    /\ ~(settings # <<>> /\ OpenSessions # {})

\* no placement answer request is in flight
RouteQuiet == \A r \in Slots : preqs[r].pc = "idle"

\* C29: a POST /api/settings request leaves the placementState stored in
\* the same settings record unchanged.
C29_SettingsFrame ==
    [][ (setreq.pc = "write" /\ setreq'.pc = "idle") => settings' = settings ]_vars

\* C30: under any interleaving of answer requests, once the LevelEstimate
\* exists and the requests have returned, no placementState is left in the
\* settings.
C30_CompletesOnce ==
    (RouteQuiet /\ level # <<>>) => settings = <<>>

\* position of a band in the order A1 < A2 < B1 < B2 < C1 < C2
BandRank(b) == CHOOSE i \in 1..Len(CEFR) : CEFR[i] = b

\* C24: the band of an estimate is A1 for theta <= -2, A2 for theta in
\* (-2, -1], B1 for (-1, 0.2], B2 for (0.2, 1.2], C1 for (1.2, 2.2] and C2
\* above 2.2, and no smaller theta gets a higher band.
C24_BandMapping ==
    level # <<>> =>
        LET theta == pst.theta
            band == level[1].cefrBand
        IN  /\ band = "A1" <=> theta <= -2 * PSC
            /\ band = "A2" <=> (-2 * PSC < theta /\ theta <= -PSC)
            /\ band = "B1" <=> (-PSC < theta /\ 10 * theta <= 2 * PSC)
            /\ band = "B2" <=> (2 * PSC < 10 * theta /\ 10 * theta <= 12 * PSC)
            /\ band = "C1" <=> (12 * PSC < 10 * theta /\ 10 * theta <= 22 * PSC)
            /\ band = "C2" <=> 22 * PSC < 10 * theta
            /\ \A u \in ThetaInputs :
                  u <= theta => BandRank(thetaToCEFR(u)) <= BandRank(band)

\* the estimate for theta = 0.2, a cut point, is B1
C24_Witness ==
    /\ level # <<>>
    /\ pst.theta = RDiv(2 * PSC, 10)
    /\ level[1].cefrBand = "B1"

C26_Independent ==
    [][ rated' \in Ratings =>
          /\ \A d \in StartDifficulties \cup {D_MIN, D_MAX} :
                LET other == review([s |-> mem.s, d |-> d], rated')
                IN  other.s = mem'.s /\ other.days = days'
          /\ \A st \in StartStabilities \cup {S_MIN, S_MAX} :
                review([s |-> st, d |-> mem.d], rated').d = mem'.d ]_vars

\* the state {2.0, 9.0} rated good has become {3.2, 9.0}: the stability is
\* the one {2.0, 5.0} gets
C26_Witness ==
    /\ reviews = 1
    /\ rated = 3
    /\ mem = [s |-> (32 * SC) \div 10, d |-> 9 * SC]

C28_Counters ==
    StudyQuiet =>
        /\ lexemeState.reps = Len(audit)
        /\ lexemeState.lapses
             = Cardinality({i \in 1..Len(audit) : audit[i].rating = 1})

====
